---------------------------- MODULE Spec2Model ----------------------------
(***************************************************************************)
(* The recommendation pipeline of src/app/api/recommendations/route.ts:    *)
(* the POST handler, the per-title resolver getImdbUrlFromTmdb, and the    *)
(* title extraction applied to the model's raw text.                       *)
(*                                                                         *)
(* Strings that the code inspects character by character (the model's raw  *)
(* text, the candidate titles) are sequences of one-character strings.     *)
(* JavaScript's undefined and null are the distinguished values UNDEFINED  *)
(* and JSNULL.  One action is one run of the handler between two awaits.   *)
(***************************************************************************)
EXTENDS Naturals, Sequences, FiniteSets

(* ------------------------------ bounds -------------------------------- *)

\* Longest raw model text, in characters.
MaxTextLen == 5

\* Longest liked-title list a request carries.
MaxMovies == 3

\* Longest ranked result list a search response carries.
MaxHits == 2

\* Longest raw text of bare title lines given to the title extraction alone.
MaxLinesLen == 13

(* --------------------------- value domains ---------------------------- *)

UNDEFINED == "<undefined>"
JSNULL == "<null>"

NL == "\n"
SP == " "

\* The characters a raw model text is made of.
Chars == {"a", SP, NL}

\* The characters String.prototype.trim strips.
WhiteSpace == {SP, NL, "\t", "\r"}

\* Values of an environment variable: unset, set to the empty string, set.
EnvValues == {UNDEFINED, "", "key"}

\* The liked titles a request may carry.
LikedTitles == {"Heat"}

\* Messages of the errors the model service call may throw.
ErrorMessages == {"fetch failed", "quota exceeded"}

TmdbIds == {603}
MediaTypes == {"movie", "tv", "person"}
ImdbIds == {"tt1", "tt2"}

\* What a JSON field holding an identifier may be: absent, null, empty, set.
IdValues == {UNDEFINED, JSNULL, ""} \cup ImdbIds

RECURSIVE SeqsUpTo(_, _)
SeqsUpTo(S, n) ==
  IF n = 0 THEN {<<>>}
  ELSE LET shorter == SeqsUpTo(S, n - 1)
       IN shorter \cup {Append(s, x) : s \in {t \in shorter : Len(t) = n - 1}, x \in S}

Texts == SeqsUpTo(Chars, MaxTextLen)

\* The raw texts the title extraction is run on alone: short ones of any
\* characters, and longer ones of one-letter lines.
ExtractTexts ==
  SeqsUpTo(Chars \cup {"b", "\t", "\r"}, MaxTextLen)
    \cup SeqsUpTo({"a", NL}, MaxLinesLen)

(* --------------------------- JavaScript ------------------------------- *)

\* ToBoolean of a string-or-nullish value.
Truthy(v) == v \notin {UNDEFINED, JSNULL, ""}

\* a ?? b
Nullish(a, b) == IF a \in {UNDEFINED, JSNULL} THEN b ELSE a

\* String.prototype.split('\n'): cut at every line feed, keeping empty pieces.
RECURSIVE Split(_)
Split(s) ==
  IF \A i \in 1..Len(s) : s[i] # NL THEN <<s>>
  ELSE LET i == CHOOSE k \in 1..Len(s) :
                  s[k] = NL /\ \A m \in 1..(k - 1) : s[m] # NL
       IN <<SubSeq(s, 1, i - 1)>> \o Split(SubSeq(s, i + 1, Len(s)))

RECURSIVE TrimStart(_)
TrimStart(s) ==
  IF s # <<>> /\ Head(s) \in WhiteSpace THEN TrimStart(Tail(s)) ELSE s

RECURSIVE TrimEnd(_)
TrimEnd(s) ==
  IF s # <<>> /\ s[Len(s)] \in WhiteSpace
  THEN TrimEnd(SubSeq(s, 1, Len(s) - 1)) ELSE s

\* Mutant of Trim: only the leading white space is stripped.
Trim_StartOnly(s) == TrimStart(s)

\* String.prototype.trim
Trim(s) == TrimEnd(TrimStart(s))

\* Array.prototype.map with title => title.trim()
MapTrim(lines) == [k \in 1..Len(lines) |-> Trim(lines[k])]

\* Mutant of NonEmpty: the filter keeps the empty lines too.
NonEmpty_KeepsAll(title) == Len(title) >= 0

NonEmpty(title) == Len(title) > 0

\* llmResponseText.split('\n').map(trim).filter(length > 0)
ExtractTitles(text) == SelectSeq(MapTrim(Split(text)), NonEmpty)


(* ------------------------- requests, responses ------------------------ *)

\* What body.movies may be: absent, null, a non-array value, an array.
MoviesValues ==
  {[tag |-> "undefined"], [tag |-> "null"], [tag |-> "number"]}
    \cup {[tag |-> "array", items |-> s] : s \in SeqsUpTo(LikedTitles, MaxMovies)}

\* What the request body may be: not JSON, the JSON value null, an object.
Requests ==
  {[json |-> "invalid"], [json |-> "null"]}
    \cup {[json |-> "object", movies |-> m] : m \in MoviesValues}

\* An Error instance.
Error(message) == [isError |-> TRUE, message |-> message]

\* NextResponse.json(body, { status })
Json(body, status) == [status |-> status, body |-> body]

\* No response sent yet.
NoResponse == [status |-> 0]

MinMovies == 3

GoogleKeyMissing == "Server configuration error: Google API key not configured."
TmdbKeyMissing == "Server configuration error: TMDB API key not configured."
SdkMissing == "Server configuration error: Google AI SDK not initialized."
TooFewMovies == "Please provide at least 3 movies."
NoTitles == "The AI failed to suggest any movie titles. Please try again."
NoImdbDetails == "Could not find IMDB details for the suggested titles. The titles might be too new or obscure."
Failed == "Failed to get recommendations."

ImdbPrefix == "https://www.imdb.com/title/"

\* The resolver's null result, and the permalink it builds otherwise.
NoUrl == <<>>
Permalink(imdbId) == <<ImdbPrefix, imdbId>>

(* ------------------------ external collaborators ---------------------- *)

\* model.generateContent: rejects, returns a response whose text() throws,
\* or returns a response with a raw text.
GenerateOutcomes ==
  {[tag |-> "rejects", error |-> Error(m)] : m \in ErrorMessages}
    \cup {[tag |-> "blocked", error |-> Error("Text not available.")]}
    \cup {[tag |-> "text", text |-> t] : t \in Texts}

Hits == [id : TmdbIds, media_type : MediaTypes]

\* The JSON a search response may carry.
SearchJson ==
  {[tag |-> "invalid"], [tag |-> "null"], [tag |-> "object"]}
    \cup {[tag |-> "object", results |-> r] : r \in SeqsUpTo(Hits, MaxHits)}

\* The JSON a detail response may carry.
DetailsJson ==
  {[tag |-> "invalid"], [tag |-> "null"]}
    \cup {[tag |-> "object", imdb_id |-> r] : r \in IdValues}
    \cup {[tag |-> "object", imdb_id |-> r, external_ids |-> [imdb_id |-> e]] :
            r \in IdValues, e \in IdValues}

\* The body of a non-2xx response: not JSON, the service's error object, or
\* a payload all the same.
SearchErrorJson ==
  {[tag |-> "invalid"], [tag |-> "object"]}
    \cup {[tag |-> "object", results |-> <<h>>] : h \in Hits}

DetailsErrorJson ==
  {[tag |-> "invalid"], [tag |-> "object", imdb_id |-> UNDEFINED]}
    \cup {[tag |-> "object", imdb_id |-> r] : r \in ImdbIds}

\* fetch(url): rejects, or resolves to a response with a status and a body.
Fetches(json, errorJson) ==
  {[tag |-> "rejects"]}
    \cup {[tag |-> "response", ok |-> FALSE, json |-> j] : j \in errorJson}
    \cup {[tag |-> "response", ok |-> TRUE, json |-> j] : j \in json}

\* No fetch made.
NoFetch == [tag |-> "none"]

(* ------------------------------ the state ----------------------------- *)

VARIABLES
  GOOGLE_API_KEY,           \* process.env.GOOGLE_API_KEY at module load
  TMDB_API_KEY,             \* process.env.TMDB_API_KEY at module load
  req,                      \* the request
  pc,                       \* where the invocation is
  bodyRead,                 \* req.json() has been called
  userMovies,               \* POST's userMovies
  llmResponseText,          \* POST's llmResponseText
  recommendedTitles,        \* POST's recommendedTitles
  titleIdx,                 \* the loop's position in recommendedTitles
  recommendationsWithImdb,  \* POST's recommendationsWithImdb
  detailsUrl,               \* mediaType and tmdbId of the latest resolver call
  response,                 \* the response POST returned
  calls,                    \* the external calls made, in order
  generated,                \* what model.generateContent did
  searchFetch,              \* what the search fetch did, until the next fetch
  detailsFetch,             \* what the detail fetch did, until the next fetch
  imdbUrls,                 \* what each resolver call returned, in order
  stub,                     \* what the search service answered, per request
  tasks,                    \* the resolver calls of a concurrent resolution
  parked,                   \* the locals of a second invocation, not running
  current,                  \* which of the two invocations is running
  movieInput,               \* HomePage's movieInput
  movies,                   \* HomePage's movies
  recommendations,          \* HomePage's recommendations
  isLoading,                \* HomePage's isLoading
  error,                    \* HomePage's error
  submit,                   \* where handleSubmit is
  posted,                   \* the body of the request handleSubmit has sent
  fetched                   \* handleSubmit's response

\* What belongs to one invocation of POST.
locals == <<req, pc, bodyRead, userMovies, llmResponseText,
            recommendedTitles, titleIdx, recommendationsWithImdb,
            detailsUrl, response, calls, generated, searchFetch,
            detailsFetch, imdbUrls>>

\* What lies around an invocation.
\* The page that calls POST.
page == <<movieInput, movies, recommendations, isLoading, error, submit,
          posted, fetched>>

around == <<stub, tasks, parked, current, page>>

vars == <<GOOGLE_API_KEY, TMDB_API_KEY, locals, around>>

\* The module-level SDK client: null when the key was missing at load.
genAI == IF Truthy(GOOGLE_API_KEY) THEN "GoogleGenerativeAI" ELSE JSNULL

NoDetailsUrl == [mediaType |-> UNDEFINED, tmdbId |-> 0]

\* No request answered by the search service yet.
NoStub == [search |-> {}, details |-> {}]

\* Nothing around the invocation: no answer recorded, no concurrent task.
\* No second invocation.
NoInvocation == [pc |-> "none"]

\* No request sent by the page, no response held by handleSubmit.
NoRequest == [sent |-> FALSE]

\* HomePage as it is first rendered.
InitPage ==
  /\ movieInput = <<>>
  /\ movies = <<>>
  /\ recommendations = <<>>
  /\ isLoading = FALSE
  /\ error = JSNULL
  /\ submit = "idle"
  /\ posted = NoRequest
  /\ fetched = NoFetch

Alone ==
  /\ stub = NoStub
  /\ tasks = <<>>
  /\ parked = NoInvocation
  /\ current = 1
  /\ InitPage

Init ==
  /\ GOOGLE_API_KEY \in EnvValues
  /\ TMDB_API_KEY \in EnvValues
  /\ req \in Requests
  /\ pc = "start"
  /\ bodyRead = FALSE
  /\ userMovies = <<>>
  /\ llmResponseText = <<>>
  /\ recommendedTitles = <<>>
  /\ titleIdx = 0
  /\ recommendationsWithImdb = <<>>
  /\ detailsUrl = NoDetailsUrl
  /\ response = NoResponse
  /\ calls = <<>>
  /\ generated = [tag |-> "none"]
  /\ searchFetch = NoFetch
  /\ detailsFetch = NoFetch
  /\ imdbUrls = <<>>
  /\ Alone

(* --------------------------- POST, in steps --------------------------- *)

\* Mutant of ConfigError: the search service's key is not checked.
ConfigError_GoogleOnly ==
  IF ~Truthy(GOOGLE_API_KEY) THEN Json([error |-> GoogleKeyMissing], 500)
  ELSE IF genAI = JSNULL THEN Json([error |-> SdkMissing], 500)
  ELSE NoResponse

\* The three configuration checks at the head of POST.
ConfigError ==
  IF ~Truthy(GOOGLE_API_KEY) THEN Json([error |-> GoogleKeyMissing], 500)
  ELSE IF ~Truthy(TMDB_API_KEY) THEN Json([error |-> TmdbKeyMissing], 500)
  ELSE IF genAI = JSNULL THEN Json([error |-> SdkMissing], 500)
  ELSE NoResponse

\* Mutant of CatchResponse: the message of the error is dropped.
CatchResponse_NoMessage(caught) ==
  Json([error |-> Failed, details |-> "An unknown error occurred."], 500)

\* The catch block of POST.
CatchResponse(caught) ==
  Json([error |-> Failed,
        details |-> IF caught.isError THEN caught.message
                    ELSE "An unknown error occurred."], 500)

\* Mutant of TooFew: the length test is off by one.
TooFew_OffByOne(liked) ==
  \/ liked.tag \in {"undefined", "null"}
  \/ liked.tag = "array" /\ Len(liked.items) < MinMovies - 1

\* !userMovies || userMovies.length < 3
TooFew(liked) ==
  \/ liked.tag \in {"undefined", "null"}
  \/ liked.tag = "array" /\ Len(liked.items) < MinMovies

\* From the parsed body to the prompt: what the try block does with the
\* request before it calls the model.
ReadBody(request) ==
  IF request.json = "invalid"
    THEN [tag |-> "throw", error |-> Error("Unexpected token in JSON")]
  ELSE IF request.json = "null"
    THEN [tag |-> "throw", error |-> Error("Cannot read properties of null")]
  ELSE IF TooFew(request.movies)
    THEN [tag |-> "return", response |-> Json([error |-> TooFewMovies], 400)]
  ELSE IF request.movies.tag # "array"
    THEN [tag |-> "throw", error |-> Error("userMovies.join is not a function")]
  ELSE [tag |-> "prompt", movies |-> request.movies.items]

\* Mutant of Aggregate: no check that something resolved.
Aggregate_NoCheck(titles, recs) == Json([recommendations |-> recs], 200)

\* The response after the loop.
Aggregate(titles, recs) ==
  IF Len(recs) = 0 /\ Len(titles) > 0
  THEN Json([error |-> NoImdbDetails, llmTitles |-> titles], 500)
  ELSE Json([recommendations |-> recs], 200)

\* Mutant of Push: a title already in the list is not pushed again.
Push_Unique(recs, title, imdbUrl) ==
  IF imdbUrl # NoUrl /\ \A m \in 1..Len(recs) : recs[m].title # title
  THEN Append(recs, [title |-> title, imdbUrl |-> imdbUrl])
  ELSE recs

\* Mutant of Push: a title is pushed whether or not it resolved.
Push_Always(recs, title, imdbUrl) ==
  Append(recs, [title |-> title, imdbUrl |-> imdbUrl])

\* Mutant of Push: the recommendation is put at the front.
Push_Front(recs, title, imdbUrl) ==
  IF imdbUrl # NoUrl THEN <<[title |-> title, imdbUrl |-> imdbUrl]>> \o recs
  ELSE recs

\* The loop body after the resolver returned imdbUrl for title.
Push(recs, title, imdbUrl) ==
  IF imdbUrl # NoUrl THEN Append(recs, [title |-> title, imdbUrl |-> imdbUrl])
  ELSE recs

(* ----------------------- getImdbUrlFromTmdb --------------------------- *)

\* Mutant of TopResult: the first movie or show of the list, at any rank.
TopResult_AnyRank(searchData) ==
  LET usable == IF "results" \in DOMAIN searchData
                THEN SelectSeq(searchData.results,
                               LAMBDA h : h.media_type \in {"movie", "tv"})
                ELSE <<>>
  IN IF usable = <<>> THEN <<>> ELSE <<usable[1]>>

\* searchData.results?.[0], as a sequence of at most one hit.
TopResult(searchData) ==
  IF "results" \in DOMAIN searchData /\ Len(searchData.results) > 0
  THEN <<searchData.results[1]>> ELSE <<>>

\* Mutant of AfterSearch: the status of the search response is not looked at.
AfterSearch_IgnoresStatus(fetch) ==
  IF fetch.tag = "rejects" THEN [tag |-> "return"]
  ELSE IF fetch.json.tag \in {"invalid", "null"} THEN [tag |-> "return"]
  ELSE LET topResult == TopResult(fetch.json)
       IN IF topResult = <<>> THEN [tag |-> "return"]
          ELSE IF topResult[1].media_type \notin {"movie", "tv"}
            THEN [tag |-> "return"]
          ELSE [tag |-> "details",
                url |-> [mediaType |-> topResult[1].media_type,
                         tmdbId |-> topResult[1].id]]

\* The resolver up to the detail fetch: what it does with the search fetch.
AfterSearch(fetch) ==
  IF fetch.tag = "rejects" THEN [tag |-> "return"]
  ELSE IF ~fetch.ok THEN [tag |-> "return"]
  ELSE IF fetch.json.tag \in {"invalid", "null"} THEN [tag |-> "return"]
  ELSE LET topResult == TopResult(fetch.json)
       IN IF topResult = <<>> THEN [tag |-> "return"]
          ELSE IF topResult[1].media_type \notin {"movie", "tv"}
            THEN [tag |-> "return"]
          ELSE [tag |-> "details",
                url |-> [mediaType |-> topResult[1].media_type,
                         tmdbId |-> topResult[1].id]]

\* Mutant of ImdbId: a show's identifier is read from external_ids alone.
ImdbId_NoFallback(mediaType, detailsData) ==
  IF mediaType = "movie" THEN detailsData.imdb_id
  ELSE IF "external_ids" \in DOMAIN detailsData
       THEN detailsData.external_ids.imdb_id ELSE UNDEFINED

\* Mutant of ImdbId: a movie's identifier is read the way a show's is.
ImdbId_ExternalForAll(mediaType, detailsData) ==
  Nullish(IF "external_ids" \in DOMAIN detailsData
          THEN detailsData.external_ids.imdb_id ELSE UNDEFINED,
          detailsData.imdb_id)

\* The identifier read from the detail payload.
ImdbId(mediaType, detailsData) ==
  IF mediaType = "movie" THEN detailsData.imdb_id
  ELSE Nullish(IF "external_ids" \in DOMAIN detailsData
               THEN detailsData.external_ids.imdb_id ELSE UNDEFINED,
               detailsData.imdb_id)

\* Mutant of AfterDetails: a reference already in the list is not returned
\* a second time.
AfterDetails_Once(mediaType, fetch) ==
  IF fetch.tag = "rejects" THEN NoUrl
  ELSE IF ~fetch.ok THEN NoUrl
  ELSE IF fetch.json.tag \in {"invalid", "null"} THEN NoUrl
  ELSE LET imdbId == ImdbId(mediaType, fetch.json)
       IN IF Truthy(imdbId)
             /\ \A m \in 1..Len(recommendationsWithImdb) :
                  recommendationsWithImdb[m].imdbUrl # Permalink(imdbId)
          THEN Permalink(imdbId) ELSE NoUrl

\* The resolver from the detail fetch on: what it returns.
AfterDetails(mediaType, fetch) ==
  IF fetch.tag = "rejects" THEN NoUrl
  ELSE IF ~fetch.ok THEN NoUrl
  ELSE IF fetch.json.tag \in {"invalid", "null"} THEN NoUrl
  ELSE LET imdbId == ImdbId(mediaType, fetch.json)
       IN IF Truthy(imdbId) THEN Permalink(imdbId) ELSE NoUrl

(* ------------------------------ actions ------------------------------- *)

\* POST returns resp.
\* Mutant of Respond: the response is built but the handler does not return.
Respond_FallsThrough(resp) ==
  /\ response' = resp
  /\ pc' = pc

Respond(resp) ==
  /\ response' = resp
  /\ pc' = "done"

\* POST from its entry to the try block: the configuration checks.
Enter ==
  /\ pc = "start"
  /\ IF ConfigError # NoResponse THEN Respond(ConfigError)
     ELSE pc' = "body" /\ UNCHANGED response
  /\ UNCHANGED <<GOOGLE_API_KEY, TMDB_API_KEY, req, bodyRead, userMovies,
                 llmResponseText, recommendedTitles, titleIdx,
                 recommendationsWithImdb, detailsUrl, calls, generated,
                 searchFetch, detailsFetch, imdbUrls>>

\* await req.json(), the validation of the list, the prompt.
Body ==
  /\ pc = "body"
  /\ bodyRead' = TRUE
  /\ LET r == ReadBody(req)
     IN CASE r.tag = "throw" -> Respond(CatchResponse(r.error)) /\ UNCHANGED userMovies
          [] r.tag = "return" -> Respond(r.response) /\ UNCHANGED userMovies
          [] r.tag = "prompt" ->
               /\ userMovies' = r.movies
               /\ pc' = "generate"
               /\ UNCHANGED response
  /\ UNCHANGED <<GOOGLE_API_KEY, TMDB_API_KEY, req, llmResponseText,
                 recommendedTitles, titleIdx, recommendationsWithImdb,
                 detailsUrl, calls, generated, searchFetch, detailsFetch,
                 imdbUrls>>

\* await model.generateContent(...), the extraction of the titles, the
\* check that there are some.
Generate ==
  /\ pc = "generate"
  /\ \E g \in GenerateOutcomes :
       /\ generated' = g
       /\ calls' = Append(calls, [api |-> "generateContent", prompt |-> userMovies])
       /\ IF g.tag # "text"
          THEN /\ Respond(CatchResponse(g.error))
               /\ UNCHANGED <<llmResponseText, recommendedTitles, titleIdx>>
          ELSE /\ llmResponseText' = g.text
               /\ recommendedTitles' = ExtractTitles(g.text)
               /\ IF Len(recommendedTitles') = 0
                  THEN /\ Respond(Json([error |-> NoTitles,
                                        llmRawResponse |-> g.text], 500))
                       /\ UNCHANGED titleIdx
                  ELSE /\ titleIdx' = 1
                       /\ pc' = "search"
                       /\ UNCHANGED response
  /\ UNCHANGED <<GOOGLE_API_KEY, TMDB_API_KEY, req, bodyRead, userMovies,
                 recommendationsWithImdb, detailsUrl, searchFetch,
                 detailsFetch, imdbUrls>>

\* Mutant of Return: a title that does not resolve fails the whole request.
Return_FailureEscapes(imdbUrl) ==
  /\ imdbUrls' = Append(imdbUrls, imdbUrl)
  /\ recommendationsWithImdb' =
       Push(recommendationsWithImdb, recommendedTitles[titleIdx], imdbUrl)
  /\ IF imdbUrl = NoUrl
     THEN /\ Respond(CatchResponse(Error("fetch failed")))
          /\ UNCHANGED titleIdx
     ELSE IF titleIdx < Len(recommendedTitles)
     THEN /\ titleIdx' = titleIdx + 1
          /\ pc' = "search"
          /\ UNCHANGED response
     ELSE /\ Respond(Aggregate(recommendedTitles, recommendationsWithImdb'))
          /\ UNCHANGED titleIdx

\* Mutant of Return: the loop stops at the first title that does not resolve.
Return_StopsAtFailure(imdbUrl) ==
  /\ imdbUrls' = Append(imdbUrls, imdbUrl)
  /\ recommendationsWithImdb' =
       Push(recommendationsWithImdb, recommendedTitles[titleIdx], imdbUrl)
  /\ IF titleIdx < Len(recommendedTitles) /\ imdbUrl # NoUrl
     THEN /\ titleIdx' = titleIdx + 1
          /\ pc' = "search"
          /\ UNCHANGED response
     ELSE /\ Respond(Aggregate(recommendedTitles, recommendationsWithImdb'))
          /\ UNCHANGED titleIdx

\* The resolver returns imdbUrl: the rest of the loop body, then the next
\* title or, after the last one, the response.
Return(imdbUrl) ==
  /\ imdbUrls' = Append(imdbUrls, imdbUrl)
  /\ recommendationsWithImdb' =
       Push(recommendationsWithImdb, recommendedTitles[titleIdx], imdbUrl)
  /\ IF titleIdx < Len(recommendedTitles)
     THEN /\ titleIdx' = titleIdx + 1
          /\ pc' = "search"
          /\ UNCHANGED response
     ELSE /\ Respond(Aggregate(recommendedTitles, recommendationsWithImdb'))
          /\ UNCHANGED titleIdx

\* getImdbUrlFromTmdb(title) up to the detail fetch.
Search ==
  /\ pc = "search"
  /\ IF ~Truthy(TMDB_API_KEY)
     THEN /\ Return(NoUrl)
          /\ detailsUrl' = NoDetailsUrl
          /\ UNCHANGED <<calls, searchFetch, detailsFetch>>
     ELSE \E f \in Fetches(SearchJson, SearchErrorJson) :
            /\ calls' = Append(calls, [api |-> "search", idx |-> titleIdx,
                                       query |-> recommendedTitles[titleIdx]])
            /\ searchFetch' = f
            /\ detailsFetch' = NoFetch
            /\ LET r == AfterSearch(f)
               IN IF r.tag = "details"
                  THEN /\ detailsUrl' = r.url
                       /\ pc' = "details"
                       /\ UNCHANGED <<titleIdx, recommendationsWithImdb,
                                      response, imdbUrls>>
                  ELSE /\ detailsUrl' = NoDetailsUrl
                       /\ Return(NoUrl)
  /\ UNCHANGED <<GOOGLE_API_KEY, TMDB_API_KEY, req, bodyRead, userMovies,
                 llmResponseText, recommendedTitles, generated>>

\* getImdbUrlFromTmdb(title) from the detail fetch on.
Details ==
  /\ pc = "details"
  /\ \E f \in Fetches(DetailsJson, DetailsErrorJson) :
       /\ calls' = Append(calls, [api |-> "details", idx |-> titleIdx])
       /\ detailsFetch' = f
       /\ searchFetch' = NoFetch
       /\ Return(AfterDetails(detailsUrl.mediaType, f))
  /\ UNCHANGED <<GOOGLE_API_KEY, TMDB_API_KEY, req, bodyRead, userMovies,
                 llmResponseText, recommendedTitles, generated, detailsUrl>>

\* The title extraction alone, on a raw text given at the start.
InitExtract ==
  /\ GOOGLE_API_KEY = "key"
  /\ TMDB_API_KEY = "key"
  /\ req = [json |-> "invalid"]
  /\ pc = "extract"
  /\ bodyRead = FALSE
  /\ userMovies = <<>>
  /\ llmResponseText \in ExtractTexts
  /\ recommendedTitles = <<>>
  /\ titleIdx = 0
  /\ recommendationsWithImdb = <<>>
  /\ detailsUrl = NoDetailsUrl
  /\ response = NoResponse
  /\ calls = <<>>
  /\ generated = [tag |-> "none"]
  /\ searchFetch = NoFetch
  /\ detailsFetch = NoFetch
  /\ imdbUrls = <<>>
  /\ Alone

Extract ==
  /\ pc = "extract"
  /\ recommendedTitles' = ExtractTitles(llmResponseText)
  /\ pc' = "extracted"
  /\ UNCHANGED <<GOOGLE_API_KEY, TMDB_API_KEY, req, bodyRead, userMovies,
                 llmResponseText, titleIdx, recommendationsWithImdb,
                 detailsUrl, response, calls, generated, searchFetch,
                 detailsFetch, imdbUrls, around>>

NextExtract == Extract

SpecExtract == InitExtract /\ [][NextExtract]_vars

Next ==
  \/ Enter /\ UNCHANGED around
  \/ Body /\ UNCHANGED around
  \/ Generate /\ UNCHANGED around
  \/ Search /\ UNCHANGED around
  \/ Details /\ UNCHANGED around

Spec == Init /\ [][Next]_vars


(* ------------- POST against a service with fixed answers ------------- *)

\* The raw texts of these runs: lines of the letter a.
StubTexts == {t \in Texts : \A i \in 1..Len(t) : t[i] # SP}

\* What the service answers a search with: a failed fetch, or a result list
\* of at most one hit.
StubSearchFetches ==
  {f \in Fetches(SearchJson, SearchErrorJson) :
     \/ f.tag = "rejects"
     \/ f.ok /\ "results" \in DOMAIN f.json /\ Len(f.json.results) <= 1}

\* What the service answers a detail request with: a failed fetch, or a
\* payload without external identifiers.
StubDetailFetches ==
  {f \in Fetches(DetailsJson, DetailsErrorJson) :
     \/ f.tag = "rejects"
     \/ f.ok /\ f.json.tag = "object" /\ "external_ids" \notin DOMAIN f.json}

\* The answers the service may give to a request: the one it gave to the
\* same request before, or any answer when the request is new.
Answers(known, key, fetches) ==
  IF \E a \in known : a.key = key
  THEN {a.fetch : a \in {b \in known : b.key = key}}
  ELSE fetches

Record(known, key, fetch) == known \cup {[key |-> key, fetch |-> fetch]}

\* An invocation with both keys configured and a list of MinMovies titles.
InitStub ==
  /\ Init
  /\ Truthy(GOOGLE_API_KEY) /\ Truthy(TMDB_API_KEY)
  /\ req.json = "object"
  /\ req.movies.tag = "array"
  /\ Len(req.movies.items) = MinMovies

StubGenerate ==
  /\ Generate
  /\ generated'.tag = "text" => generated'.text \in StubTexts
  /\ UNCHANGED around

\* The search fetch of the loop, answered by the service.
StubSearch ==
  /\ Search
  /\ searchFetch' \in Answers(stub.search, recommendedTitles[titleIdx],
                              StubSearchFetches)
  /\ stub' = [stub EXCEPT
               !.search = Record(@, recommendedTitles[titleIdx], searchFetch')]
  /\ UNCHANGED <<tasks, parked, current, page>>

\* The detail fetch of the loop, answered by the service.
StubDetails ==
  /\ Details
  /\ detailsFetch' \in Answers(stub.details, detailsUrl, StubDetailFetches)
  /\ stub' = [stub EXCEPT !.details = Record(@, detailsUrl, detailsFetch')]
  /\ UNCHANGED <<tasks, parked, current, page>>

\* The concurrent resolution: one resolver call per candidate, all started
\* together on the candidates the loop has gone through.
Fork ==
  /\ pc = "done"
  /\ Len(imdbUrls) > 0
  /\ tasks = <<>>
  /\ tasks' = [k \in 1..Len(recommendedTitles) |->
                [pc |-> "search", url |-> NoDetailsUrl, imdbUrl |-> NoUrl]]
  /\ UNCHANGED <<GOOGLE_API_KEY, TMDB_API_KEY, locals, stub, parked, current,
                 page>>

\* Resolver call k up to its detail fetch.
TaskSearch(k) ==
  /\ tasks[k].pc = "search"
  /\ IF ~Truthy(TMDB_API_KEY)
     THEN /\ tasks' = [tasks EXCEPT ![k].pc = "joined"]
          /\ UNCHANGED stub
     ELSE \E f \in Answers(stub.search, recommendedTitles[k],
                           StubSearchFetches) :
            /\ stub' = [stub EXCEPT
                         !.search = Record(@, recommendedTitles[k], f)]
            /\ LET r == AfterSearch(f)
               IN tasks' = [tasks EXCEPT ![k] =
                              IF r.tag = "details"
                              THEN [pc |-> "details", url |-> r.url,
                                    imdbUrl |-> NoUrl]
                              ELSE [pc |-> "joined", url |-> NoDetailsUrl,
                                    imdbUrl |-> NoUrl]]
  /\ UNCHANGED <<GOOGLE_API_KEY, TMDB_API_KEY, locals, parked, current, page>>

\* Resolver call k from its detail fetch on.
TaskDetails(k) ==
  /\ tasks[k].pc = "details"
  /\ \E f \in Answers(stub.details, tasks[k].url, StubDetailFetches) :
       /\ stub' = [stub EXCEPT !.details = Record(@, tasks[k].url, f)]
       /\ tasks' = [tasks EXCEPT ![k] =
                      [pc |-> "joined", url |-> tasks[k].url,
                       imdbUrl |-> AfterDetails(tasks[k].url.mediaType, f)]]
  /\ UNCHANGED <<GOOGLE_API_KEY, TMDB_API_KEY, locals, parked, current, page>>

\* Every resolver call of the concurrent resolution has returned.
Joined ==
  /\ tasks # <<>>
  /\ \A k \in DOMAIN tasks : tasks[k].pc = "joined"

\* The list built from the first n results, in the candidates' order.
RECURSIVE Collected(_)
Collected(n) ==
  IF n = 0 THEN <<>>
  ELSE Push(Collected(n - 1), recommendedTitles[n], tasks[n].imdbUrl)

\* The response aggregated from the joined results.
ConcurrentResponse == Aggregate(recommendedTitles, Collected(Len(tasks)))

NextStub ==
  \/ Enter /\ UNCHANGED around
  \/ Body /\ UNCHANGED around
  \/ StubGenerate
  \/ StubSearch
  \/ StubDetails
  \/ Fork
  \/ \E k \in DOMAIN tasks : TaskSearch(k)
  \/ \E k \in DOMAIN tasks : TaskDetails(k)

SpecStub == InitStub /\ [][NextStub]_vars

(* ------------------ POST when every await settles -------------------- *)

\* What the services answer with: raw texts of lines of the letter a,
\* search results of at most one hit, any detail response.
FairEnv ==
  /\ generated.tag = "text" => generated.text \in StubTexts
  /\ searchFetch.tag = "response" /\ "results" \in DOMAIN searchFetch.json
       => Len(searchFetch.json.results) <= 1

NextFair ==
  \/ Enter /\ UNCHANGED around
  \/ Body /\ UNCHANGED around
  \/ Generate /\ UNCHANGED around /\ FairEnv'
  \/ Search /\ UNCHANGED around /\ FairEnv'
  \/ Details /\ UNCHANGED around

\* Every awaited call (req.json, generateContent, fetch) settles: a pending
\* step of the handler is eventually taken.
SpecFair == Init /\ [][NextFair]_vars /\ WF_vars(NextFair)

(* ------------------- two invocations, interleaved --------------------- *)

\* The locals of an invocation that has not begun.
Fresh(request) ==
  [req |-> request, pc |-> "start", bodyRead |-> FALSE, userMovies |-> <<>>,
   llmResponseText |-> <<>>, recommendedTitles |-> <<>>, titleIdx |-> 0,
   recommendationsWithImdb |-> <<>>, detailsUrl |-> NoDetailsUrl,
   response |-> NoResponse, calls |-> <<>>, generated |-> [tag |-> "none"],
   searchFetch |-> NoFetch, detailsFetch |-> NoFetch, imdbUrls |-> <<>>]

\* The locals of the running invocation.
Running ==
  [req |-> req, pc |-> pc, bodyRead |-> bodyRead, userMovies |-> userMovies,
   llmResponseText |-> llmResponseText,
   recommendedTitles |-> recommendedTitles, titleIdx |-> titleIdx,
   recommendationsWithImdb |-> recommendationsWithImdb,
   detailsUrl |-> detailsUrl, response |-> response, calls |-> calls,
   generated |-> generated, searchFetch |-> searchFetch,
   detailsFetch |-> detailsFetch, imdbUrls |-> imdbUrls]

\* Mutant of Resume: the list of recommendations is one for all invocations.
Resume_SharedList(inv) ==
  /\ req' = inv.req
  /\ pc' = inv.pc
  /\ bodyRead' = inv.bodyRead
  /\ userMovies' = inv.userMovies
  /\ llmResponseText' = inv.llmResponseText
  /\ recommendedTitles' = inv.recommendedTitles
  /\ titleIdx' = inv.titleIdx
  /\ recommendationsWithImdb' = recommendationsWithImdb
  /\ detailsUrl' = inv.detailsUrl
  /\ response' = inv.response
  /\ calls' = inv.calls
  /\ generated' = inv.generated
  /\ searchFetch' = inv.searchFetch
  /\ detailsFetch' = inv.detailsFetch
  /\ imdbUrls' = inv.imdbUrls

\* An invocation goes on after an await, with the locals it had.
Resume(inv) ==
  /\ req' = inv.req
  /\ pc' = inv.pc
  /\ bodyRead' = inv.bodyRead
  /\ userMovies' = inv.userMovies
  /\ llmResponseText' = inv.llmResponseText
  /\ recommendedTitles' = inv.recommendedTitles
  /\ titleIdx' = inv.titleIdx
  /\ recommendationsWithImdb' = inv.recommendationsWithImdb
  /\ detailsUrl' = inv.detailsUrl
  /\ response' = inv.response
  /\ calls' = inv.calls
  /\ generated' = inv.generated
  /\ searchFetch' = inv.searchFetch
  /\ detailsFetch' = inv.detailsFetch
  /\ imdbUrls' = inv.imdbUrls

\* The requests of the two invocations: a list one title short, a list of
\* MinMovies titles.
TwoRequests ==
  {r \in Requests :
     /\ r.json = "object"
     /\ r.movies.tag = "array"
     /\ Len(r.movies.items) \in {MinMovies - 1, MinMovies}}

\* The raw texts of the two invocations.
TwoTexts == {t \in StubTexts : Len(t) <= 3}

\* The identifier the detail service gives to the titles of invocation n.
OwnId(n) == IF n = 1 THEN "tt1" ELSE "tt2"

\* What the services answer the running invocation with.
TwoEnv ==
  /\ generated.tag = "text" => generated.text \in TwoTexts
  /\ generated.tag = "rejects" => generated.error.message = "fetch failed"
  /\ generated.tag # "blocked"
  /\ searchFetch.tag = "response"
       => /\ searchFetch.ok
          /\ searchFetch.json.tag = "object"
          /\ "results" \in DOMAIN searchFetch.json
          /\ Len(searchFetch.json.results) = 1
  /\ detailsFetch.tag # "rejects"
  /\ detailsFetch.tag = "response"
       => /\ detailsFetch.ok
          /\ detailsFetch.json.tag = "object"
          /\ "external_ids" \notin DOMAIN detailsFetch.json
          /\ detailsFetch.json.imdb_id = OwnId(current)

InitTwo ==
  /\ Init
  /\ Truthy(GOOGLE_API_KEY) /\ Truthy(TMDB_API_KEY)
  /\ req \in TwoRequests

\* A second request arrives: its invocation begins where the first awaits.
Arrive ==
  /\ parked = NoInvocation
  /\ \E r \in TwoRequests : parked' = Fresh(r)
  /\ UNCHANGED <<GOOGLE_API_KEY, TMDB_API_KEY, locals, stub, tasks, current,
                 page>>

\* The running invocation awaits and the other one goes on.
Switch ==
  /\ parked # NoInvocation
  /\ parked.pc # "done"
  /\ parked' = Running
  /\ Resume(parked)
  /\ current' = 3 - current
  /\ UNCHANGED <<GOOGLE_API_KEY, TMDB_API_KEY, stub, tasks, page>>

NextTwo ==
  \/ Enter /\ UNCHANGED around
  \/ Body /\ UNCHANGED around
  \/ Generate /\ UNCHANGED around /\ TwoEnv'
  \/ Search /\ UNCHANGED around /\ TwoEnv'
  \/ Details /\ UNCHANGED around /\ TwoEnv'
  \/ Arrive
  \/ Switch

SpecTwo == InitTwo /\ [][NextTwo]_vars

(* ------------------------- the page, HomePage ------------------------- *)

\* Longest list of liked titles the page is taken to.
MaxLiked == 4

\* What the user types into the input.
Inputs ==
  {<<>>, <<SP>>, <<"a">>, <<"b">>, <<"c">>, <<"d">>, <<SP, "a">>,
   <<"a", SP>>, <<"a", SP, "b">>}

\* The recommendation lists a response of POST may carry.
Recs ==
  {<<>>,
   <<[title |-> <<"a">>, imdbUrl |-> Permalink("tt1")]>>,
   <<[title |-> <<"a">>, imdbUrl |-> Permalink("tt1")],
     [title |-> <<"a">>, imdbUrl |-> Permalink("tt2")]>>}

\* fetch("/api/recommendations"): rejects with an Error or with another
\* value, or resolves to a response with a status and a body.
PageFetches ==
  {[tag |-> "rejects", error |-> Error("Failed to fetch")],
   [tag |-> "rejects", error |-> [isError |-> FALSE]]}
    \cup {[tag |-> "response", ok |-> FALSE, status |-> st, json |-> j] :
            st \in {400, 500},
            j \in {[tag |-> "invalid"], [tag |-> "null"], [tag |-> "object"],
                   [tag |-> "object", error |-> ""],
                   [tag |-> "object", error |-> Failed],
                   [tag |-> "object", error |-> NoImdbDetails]}}
    \cup {[tag |-> "response", ok |-> TRUE, status |-> 200, json |-> j] :
            j \in {[tag |-> "invalid"], [tag |-> "null"], [tag |-> "object"]}
                    \cup {[tag |-> "object", recommendations |-> r] :
                            r \in Recs}}

MinLiked == 3

NoneFound == "No recommendations found, or an error occurred while fetching them."
UnknownFetchError == "An unknown error occurred while fetching recommendations."
\* `HTTP error! status: ${response.status}`
HttpError(status) ==
  IF status = 400 THEN "HTTP error! status: 400"
  ELSE "HTTP error! status: 500"

\* The message of the SyntaxError of response.json(), of the TypeError of a
\* property read on null.
JsonSyntaxError == "Unexpected token"
NullTypeError == "Cannot read properties of null"

\* Array.prototype.includes
Includes(list, x) == \E i \in 1..Len(list) : list[i] = x

\* Array.prototype.filter((movie) => movie !== movieToRemove)
RECURSIVE Without(_, _)
Without(list, x) ==
  IF list = <<>> THEN <<>>
  ELSE (IF list[1] # x THEN <<list[1]>> ELSE <<>>) \o Without(Tail(list), x)

\* Mutant of Addable: a title already in the list is added again.
Addable_Again(input, list) == Trim(input) # <<>>

\* The condition of handleAddMovie.
Addable(input, list) == Trim(input) # <<>> /\ ~Includes(list, Trim(input))

\* The catch block of handleSubmit: the message it sets.
Caught(err) == IF err.isError THEN err.message ELSE UnknownFetchError

\* Mutant of AfterJson: an empty list of recommendations is shown as it is.
AfterJson_EmptyShown(resp) ==
  IF resp.json.tag = "invalid"
  THEN [error |-> Caught(Error(JsonSyntaxError))]
  ELSE IF resp.json.tag = "null"
  THEN [error |-> Caught(Error(NullTypeError))]
  ELSE IF ~resp.ok
  THEN [error |-> Caught(Error(
          IF "error" \in DOMAIN resp.json /\ Truthy(resp.json.error)
          THEN resp.json.error ELSE HttpError(resp.status)))]
  ELSE IF "recommendations" \in DOMAIN resp.json
  THEN [recommendations |-> resp.json.recommendations]
  ELSE [error |-> NoneFound]

\* handleSubmit from response.json() on: what it sets, the error or the
\* recommendations.
AfterJson(resp) ==
  IF resp.json.tag = "invalid"
  THEN [error |-> Caught(Error(JsonSyntaxError))]
  ELSE IF resp.json.tag = "null"
  THEN [error |-> Caught(Error(NullTypeError))]
  ELSE IF ~resp.ok
  THEN [error |-> Caught(Error(
          IF "error" \in DOMAIN resp.json /\ Truthy(resp.json.error)
          THEN resp.json.error ELSE HttpError(resp.status)))]
  ELSE IF "recommendations" \in DOMAIN resp.json
          /\ Len(resp.json.recommendations) > 0
  THEN [recommendations |-> resp.json.recommendations]
  ELSE [error |-> NoneFound]

\* The input's onChange; the input is disabled while the page is loading.
onChange(value) ==
  /\ ~isLoading
  /\ movieInput' = value
  /\ UNCHANGED <<movies, recommendations, isLoading, error, submit, posted,
                 fetched>>

\* The Add button, the Enter key; both are disabled while the page is
\* loading.
handleAddMovie ==
  /\ ~isLoading
  /\ Len(movies) < MaxLiked
  /\ IF Addable(movieInput, movies)
     THEN /\ movies' = Append(movies, Trim(movieInput))
          /\ movieInput' = <<>>
          /\ error' = JSNULL
          /\ recommendations' = <<>>
     ELSE UNCHANGED <<movies, movieInput, error, recommendations>>
  /\ UNCHANGED <<isLoading, submit, posted, fetched>>

\* The Remove button of a title; disabled while the page is loading.
handleRemoveMovie(movieToRemove) ==
  /\ ~isLoading
  /\ movies' = Without(movies, movieToRemove)
  /\ error' = JSNULL
  /\ recommendations' = <<>>
  /\ UNCHANGED <<movieInput, isLoading, submit, posted, fetched>>

\* handleSubmit up to await fetch(...); its button is disabled while the
\* page is loading.
handleSubmit ==
  /\ ~isLoading
  /\ submit = "idle"
  /\ IF Len(movies) < MinLiked
     THEN UNCHANGED <<isLoading, error, recommendations, submit, posted>>
     ELSE /\ isLoading' = TRUE
          /\ error' = JSNULL
          /\ recommendations' = <<>>
          /\ submit' = "fetch"
          /\ posted' = [sent |-> TRUE, movies |-> movies]
  /\ UNCHANGED <<movieInput, movies, fetched>>

\* handleSubmit from the end of fetch(...) to await response.json(), or to
\* its end when the fetch rejects.
Fetched ==
  /\ submit = "fetch"
  /\ \E f \in PageFetches :
       IF f.tag = "rejects"
       THEN /\ error' = Caught(f.error)
            /\ isLoading' = FALSE
            /\ submit' = "idle"
            /\ posted' = NoRequest
            /\ UNCHANGED fetched
       ELSE /\ fetched' = f
            /\ submit' = "json"
            /\ UNCHANGED <<error, isLoading, posted>>
  /\ UNCHANGED <<movieInput, movies, recommendations>>

\* handleSubmit from the end of response.json() to its end.
Parsed ==
  /\ submit = "json"
  /\ LET set == AfterJson(fetched)
     IN IF "error" \in DOMAIN set
        THEN error' = set.error /\ UNCHANGED recommendations
        ELSE recommendations' = set.recommendations /\ UNCHANGED error
  /\ isLoading' = FALSE
  /\ submit' = "idle"
  /\ posted' = NoRequest
  /\ fetched' = NoFetch
  /\ UNCHANGED <<movieInput, movies>>

\* POST idle.
Idle == UNCHANGED <<GOOGLE_API_KEY, TMDB_API_KEY, locals, stub, tasks, parked,
                    current>>

InitHome ==
  /\ Init
  /\ GOOGLE_API_KEY = "key"
  /\ TMDB_API_KEY = "key"
  /\ req = [json |-> "invalid"]

NextHome ==
  \/ \E value \in Inputs : onChange(value) /\ Idle
  \/ handleAddMovie /\ Idle
  \/ \E m \in 1..Len(movies) : handleRemoveMovie(movies[m]) /\ Idle
  \/ handleSubmit /\ Idle
  \/ Fetched /\ Idle
  \/ Parsed /\ Idle

SpecHome == InitHome /\ [][NextHome]_vars

\* The fetch and response.json() settle.
SpecHomeFair == SpecHome /\ WF_vars(Fetched /\ Idle) /\ WF_vars(Parsed /\ Idle)

(* ------------------- the outcomes, as a caller sees them -------------- *)

Done == pc = "done"

BothKeys == Truthy(GOOGLE_API_KEY) /\ Truthy(TMDB_API_KEY)

ConfigErrors == {GoogleKeyMissing, TmdbKeyMissing, SdkMissing}

IsConfigError(r) == r.status = 500 /\ r.body.error \in ConfigErrors
IsValidationError(r) == r = Json([error |-> TooFewMovies], 400)
IsGenerationFailure(r) ==
  r.status = 500 /\ r.body.error = Failed /\ "details" \in DOMAIN r.body
IsEmptySuggestion(r) == r.status = 500 /\ r.body.error = NoTitles
IsNoResolution(r) == r.status = 500 /\ r.body.error = NoImdbDetails
IsSuccess(r) == r.status = 200 /\ "recommendations" \in DOMAIN r.body

\* The external calls made to the given service.
CallsTo(api) == {n \in 1..Len(calls) : calls[n].api = api}

\* The resolver calls made for the candidate at position k.
CallsFor(api, k) == {n \in CallsTo(api) : calls[n].idx = k}

\* The request's JSON object carries no list of liked titles (the field is
\* absent or null), or a list of fewer than three.
ListMissing ==
  /\ req.json = "object"
  /\ req.movies.tag \in {"undefined", "null"}

ListShort ==
  /\ req.json = "object"
  /\ req.movies.tag = "array"
  /\ Len(req.movies.items) < 3

\* A text of white space only.
AllBlank(text) == \A i \in 1..Len(text) : text[i] \in WhiteSpace

\* The model call returned a text and the resolver has returned for every
\* candidate title.
AllResolved ==
  /\ generated.tag = "text"
  /\ Len(recommendedTitles) > 0
  /\ Len(imdbUrls) = Len(recommendedTitles)

\* The candidates that resolved, each with its reference, in their order.
RECURSIVE ResolvedFrom(_, _, _)
ResolvedFrom(titles, urls, k) ==
  IF k > Len(titles) THEN <<>>
  ELSE (IF urls[k] # NoUrl
        THEN <<[title |-> titles[k], imdbUrl |-> urls[k]]>> ELSE <<>>)
       \o ResolvedFrom(titles, urls, k + 1)

(* ------------------------------- C1 ----------------------------------- *)

\* C1 as stated: a request whose list of liked titles is missing or has
\* fewer than 3 entries is answered with the validation error (status 400)
\* and no external call is made.
C1_AsStated ==
  Done /\ (ListMissing \/ ListShort)
    => IsValidationError(response) /\ calls = <<>>

\* C1, amended: a request whose list of liked titles is missing or has fewer
\* than 3 entries never causes an external call; and when both credentials
\* are configured, POST answers it with the validation error (status 400).
C1_TooFewIsRejected ==
  (ListMissing \/ ListShort)
    => /\ calls = <<>>
       /\ pc \notin {"generate", "search", "details"}
       /\ Done /\ BothKeys => IsValidationError(response)

C1_Witness ==
  /\ Done
  /\ BothKeys
  /\ ListShort
  /\ Len(req.movies.items) = 2
  /\ response.status = 400
  /\ bodyRead

(* ------------------------------- C2 ----------------------------------- *)

SomeButNotAllResolved ==
  /\ AllResolved
  /\ \E k \in 1..Len(imdbUrls) : imdbUrls[k] # NoUrl
  /\ \E k \in 1..Len(imdbUrls) : imdbUrls[k] = NoUrl

\* C2: when the model call succeeded and some but not all candidates
\* resolved, POST returns success (status 200) and the recommendations are
\* exactly the candidates whose resolver call returned a reference, in the
\* candidates' order, each with the reference returned for it.
C2_PartialSuccess ==
  Done /\ SomeButNotAllResolved
    => /\ IsSuccess(response)
       /\ response =
            Json([recommendations |->
                    ResolvedFrom(recommendedTitles, imdbUrls, 1)], 200)

C2_Witness ==
  /\ Done
  /\ SomeButNotAllResolved
  /\ IsSuccess(response)
  /\ Len(response.body.recommendations) = 2
  /\ response.body.recommendations[1].imdbUrl
       # response.body.recommendations[2].imdbUrl

(* ------------------------------- C3 ----------------------------------- *)

\* C3: when the raw text of the model is empty or white space only, POST
\* answers with the empty-suggestion failure and makes no search or detail
\* call; no other outcome carries that failure's message, so it is told
\* apart from the generation failure and from the no-resolution failure.
C3_EmptySuggestion ==
  /\ generated.tag = "text" /\ AllBlank(generated.text)
       => /\ Done
          /\ response = Json([error |-> NoTitles,
                              llmRawResponse |-> generated.text], 500)
          /\ ~IsGenerationFailure(response)
          /\ ~IsNoResolution(response)
          /\ CallsTo("search") = {} /\ CallsTo("details") = {}
  /\ Done /\ IsEmptySuggestion(response)
       => generated.tag = "text" /\ AllBlank(generated.text)

C3_Witness ==
  /\ Done
  /\ generated.tag = "text"
  /\ Len(generated.text) > 1
  /\ AllBlank(generated.text)
  /\ IsEmptySuggestion(response)

(* ------------------------------- C4 ----------------------------------- *)

NoneResolved ==
  /\ AllResolved
  /\ \A k \in 1..Len(imdbUrls) : imdbUrls[k] = NoUrl

\* C4: when at least one candidate was extracted and every resolver call
\* returned null, POST answers with the no-resolution failure, which is not
\* the empty-suggestion failure, and its payload carries the extracted
\* candidate titles, all of them and in their order; no other outcome
\* carries that failure's message.
C4_NoResolution ==
  /\ Done /\ NoneResolved
       => /\ response = Json([error |-> NoImdbDetails,
                              llmTitles |-> recommendedTitles], 500)
          /\ ~IsEmptySuggestion(response)
          /\ Len(response.body.llmTitles) = Cardinality(CallsTo("search"))
          /\ \A n \in CallsTo("search") :
               response.body.llmTitles[calls[n].idx] = calls[n].query
  /\ Done /\ IsNoResolution(response) => NoneResolved

C4_Witness ==
  /\ Done
  /\ NoneResolved
  /\ IsNoResolution(response)
  /\ Len(response.body.llmTitles) = 2
  /\ response.body.llmTitles[1] # response.body.llmTitles[2]

(* ------------------------------- C5 ----------------------------------- *)

\* C5: once the model call has returned a text with at least one candidate,
\* POST ends only in success or in the no-resolution failure, never in the
\* generation failure, and by then one search call has been made for every
\* candidate, in the candidates' order, whatever the earlier ones did.
C5_EveryCandidateAttempted ==
  /\ generated.tag = "text" /\ ~AllBlank(generated.text)
       => /\ ~IsGenerationFailure(response)
          /\ Done => /\ IsSuccess(response) \/ IsNoResolution(response)
                     /\ \A k \in 1..Len(recommendedTitles) :
                          \E n \in CallsFor("search", k) :
                            calls[n].query = recommendedTitles[k]
                     /\ Len(imdbUrls) = Len(recommendedTitles)

C5_Witness ==
  /\ Done
  /\ generated.tag = "text"
  /\ Len(recommendedTitles) = 3
  /\ imdbUrls[1] = NoUrl
  /\ imdbUrls[2] = NoUrl
  /\ imdbUrls[3] # NoUrl
  /\ Cardinality(CallsTo("search")) = 3
  /\ IsSuccess(response)

(* ------------------------------- C6 ----------------------------------- *)

\* The candidate the latest external call was made for.
LastIdx == calls[Len(calls)].idx

\* The latest fetch was a search that returned a 2xx response with a JSON
\* object.
SearchAnswered ==
  /\ searchFetch.tag = "response"
  /\ searchFetch.ok
  /\ searchFetch.json.tag = "object"

\* The ranked list is missing or empty, or its first hit is neither a movie
\* nor a show.
NoUsableTop(searchData) ==
  \/ "results" \notin DOMAIN searchData
  \/ searchData.results = <<>>
  \/ searchData.results[1].media_type \notin {"movie", "tv"}

\* C6: a search that returns no results, or whose first result is neither a
\* movie nor a show, leaves the title unresolved with no detail fetch made
\* for it, whatever the later ranks hold; a detail fetch is made only for
\* the first result of the search made just before it.
C6_OnlyTopResult ==
  /\ SearchAnswered /\ NoUsableTop(searchFetch.json)
       => /\ pc # "details"
          /\ Len(imdbUrls) = LastIdx
          /\ imdbUrls[LastIdx] = NoUrl
          /\ CallsFor("details", LastIdx) = {}
  /\ pc = "details"
       => /\ SearchAnswered
          /\ ~NoUsableTop(searchFetch.json)
          /\ detailsUrl = [mediaType |-> searchFetch.json.results[1].media_type,
                           tmdbId |-> searchFetch.json.results[1].id]
  /\ \A n \in CallsTo("details") :
       /\ n > 1
       /\ calls[n - 1].api = "search"
       /\ calls[n - 1].idx = calls[n].idx

C6_Witness ==
  /\ SearchAnswered
  /\ "results" \in DOMAIN searchFetch.json
  /\ Len(searchFetch.json.results) = 2
  /\ searchFetch.json.results[1].media_type = "person"
  /\ searchFetch.json.results[2].media_type = "movie"
  /\ imdbUrls[LastIdx] = NoUrl
  /\ calls[Len(calls)].api = "search"

(* ------------------------------- C7 ----------------------------------- *)

SearchFailed == searchFetch.tag = "response" /\ ~searchFetch.ok
DetailsFailed == detailsFetch.tag = "response" /\ ~detailsFetch.ok

\* C7: a non-2xx response to the search call or to the detail call leaves
\* that one title unresolved; a failed search is followed by no detail call;
\* no call is made twice for the same candidate occurrence; and the loop
\* goes on to the next candidate, or to the response after the last one.
C7_Non2xxIsLocal ==
  /\ SearchFailed \/ DetailsFailed
       => /\ Len(imdbUrls) = LastIdx
          /\ imdbUrls[LastIdx] = NoUrl
          /\ SearchFailed => CallsFor("details", LastIdx) = {}
          /\ IF LastIdx < Len(recommendedTitles)
             THEN pc = "search" /\ titleIdx = LastIdx + 1 /\ response = NoResponse
             ELSE Done /\ (IsSuccess(response) \/ IsNoResolution(response))
  /\ \A k \in 1..Len(recommendedTitles) :
       /\ Cardinality(CallsFor("search", k)) <= 1
       /\ Cardinality(CallsFor("details", k)) <= 1

C7_Witness ==
  /\ DetailsFailed
  /\ detailsFetch.json.tag = "object"
  /\ Truthy(detailsFetch.json.imdb_id)
  /\ LastIdx = 1
  /\ Len(recommendedTitles) = 2
  /\ pc = "search"
  /\ imdbUrls = <<NoUrl>>

C7_WitnessSearch ==
  /\ SearchFailed
  /\ searchFetch.json.tag = "object"
  /\ ~NoUsableTop(searchFetch.json)
  /\ LastIdx = 2
  /\ imdbUrls[1] # NoUrl
  /\ IsSuccess(response)

(* ------------------------------- C8 ----------------------------------- *)

\* C8: with either credential missing POST answers with a configuration
\* error before it reads the request and before any external call; only
\* then does it answer with one, so the configuration error is told apart
\* from every failure of a run.
C8_ConfigurationError ==
  /\ ~BothKeys
       => /\ pc \in {"start", "done"}
          /\ ~bodyRead
          /\ calls = <<>>
          /\ Done => /\ IsConfigError(response)
                     /\ ~IsValidationError(response)
                     /\ ~IsGenerationFailure(response)
                     /\ ~IsEmptySuggestion(response)
                     /\ ~IsNoResolution(response)
  /\ Done /\ IsConfigError(response) => ~BothKeys

C8_Witness ==
  /\ Done
  /\ Truthy(GOOGLE_API_KEY)
  /\ TMDB_API_KEY = ""
  /\ response = Json([error |-> TmdbKeyMissing], 500)
  /\ req.json = "invalid"

(* ------------------------------- C9 ----------------------------------- *)

\* C9: when the model call throws, POST ends at once: the model call is the
\* only external call made, and the response is the generation failure with
\* the message of the error thrown, which is none of the validation, the
\* empty-suggestion and the no-resolution outcomes.
C9_GenerationFailure ==
  generated.tag = "rejects"
    => /\ Done
       /\ response = Json([error |-> Failed,
                           details |-> generated.error.message], 500)
       /\ Len(calls) = 1 /\ calls[1].api = "generateContent"
       /\ ~IsValidationError(response)
       /\ ~IsEmptySuggestion(response)
       /\ ~IsNoResolution(response)

C9_Witness ==
  /\ Done
  /\ generated.tag = "rejects"
  /\ response.body.details = "quota exceeded"

(* ------------------------------- C10 ---------------------------------- *)

\* The position of the n-th line feed of the text.
NthLineFeed(text, n) ==
  CHOOSE i \in 1..Len(text) :
    text[i] = NL /\ Cardinality({m \in 1..i : text[m] = NL}) = n

LineCount(text) == Cardinality({i \in 1..Len(text) : text[i] = NL}) + 1

\* The j-th line of the text: what lies between two line feeds, or between
\* a line feed and an end of the text.
Line(text, j) ==
  SubSeq(text,
         IF j = 1 THEN 1 ELSE NthLineFeed(text, j - 1) + 1,
         IF j = LineCount(text) THEN Len(text) ELSE NthLineFeed(text, j) - 1)

\* The line from its first to its last character that is not white space.
Stripped(line) ==
  LET inked == {i \in 1..Len(line) : line[i] \notin WhiteSpace}
  IN IF inked = {} THEN <<>>
     ELSE SubSeq(line,
                 CHOOSE i \in inked : \A m \in inked : i <= m,
                 CHOOSE i \in inked : \A m \in inked : i >= m)

\* The lines that are not blank, stripped, in the order of the text.
NonBlankLines(text) ==
  SelectSeq([j \in 1..LineCount(text) |-> Stripped(Line(text, j))],
            LAMBDA line : line # <<>>)

\* C10: the titles extracted from a raw text are exactly its lines that are
\* not blank, each without its surrounding white space and otherwise as it
\* is, in the order of the text and however many they are; an empty or
\* blank text yields none.
C10_TitleExtraction ==
  pc = "extracted"
    => /\ recommendedTitles = NonBlankLines(llmResponseText)
       /\ \A k \in 1..Len(recommendedTitles) :
            /\ recommendedTitles[k] # <<>>
            /\ Head(recommendedTitles[k]) \notin WhiteSpace
            /\ recommendedTitles[k][Len(recommendedTitles[k])] \notin WhiteSpace
       /\ AllBlank(llmResponseText) => recommendedTitles = <<>>

C10_Witness ==
  /\ pc = "extracted"
  /\ Len(recommendedTitles) = 7

(* ------------------------------- C11 ---------------------------------- *)

\* The latest fetch was a detail fetch that returned a 2xx response with a
\* JSON object.
DetailsAnswered ==
  /\ detailsFetch.tag = "response"
  /\ detailsFetch.ok
  /\ detailsFetch.json.tag = "object"

HasExternalIds == "external_ids" \in DOMAIN detailsFetch.json

\* C11: for a show, a detail payload without an external-identifiers block
\* and with an identifier at its root resolves to the permalink of the root
\* identifier; a payload whose external-identifiers block carries an
\* identifier resolves to the permalink of that one.
C11_ShowIdentifier ==
  DetailsAnswered /\ detailsUrl.mediaType = "tv"
    => /\ ~HasExternalIds /\ detailsFetch.json.imdb_id \in ImdbIds
            => imdbUrls[LastIdx] = Permalink(detailsFetch.json.imdb_id)
       /\ HasExternalIds /\ detailsFetch.json.external_ids.imdb_id \in ImdbIds
            => imdbUrls[LastIdx] =
                 Permalink(detailsFetch.json.external_ids.imdb_id)

C11_Witness ==
  /\ DetailsAnswered
  /\ detailsUrl.mediaType = "tv"
  /\ ~HasExternalIds
  /\ detailsFetch.json.imdb_id = "tt1"
  /\ imdbUrls[LastIdx] = Permalink("tt1")
  /\ IsSuccess(response)

C11_WitnessExternal ==
  /\ DetailsAnswered
  /\ detailsUrl.mediaType = "tv"
  /\ HasExternalIds
  /\ detailsFetch.json.external_ids.imdb_id = "tt2"
  /\ detailsFetch.json.imdb_id = "tt1"
  /\ imdbUrls[LastIdx] = Permalink("tt2")

(* ------------------------------- C14 ---------------------------------- *)

\* The candidates whose resolver call returned a reference.
ResolvedIdx == {k \in 1..Len(imdbUrls) : imdbUrls[k] # NoUrl}

C16_Permalink ==
  /\ DetailsAnswered /\ detailsUrl.mediaType = "movie"
       => imdbUrls[LastIdx] =
            IF detailsFetch.json.imdb_id \in ImdbIds
            THEN <<ImdbPrefix, detailsFetch.json.imdb_id>> ELSE NoUrl
  /\ DetailsAnswered /\ detailsUrl.mediaType = "tv"
       => LET external == IF HasExternalIds
                          THEN detailsFetch.json.external_ids.imdb_id
                          ELSE UNDEFINED
              extracted == IF external \in {UNDEFINED, JSNULL}
                           THEN detailsFetch.json.imdb_id ELSE external
          IN extracted \notin ImdbIds => imdbUrls[LastIdx] = NoUrl
  /\ \A k \in ResolvedIdx :
       /\ Len(imdbUrls[k]) = 2
       /\ imdbUrls[k][1] = ImdbPrefix
       /\ imdbUrls[k][2] \in ImdbIds

C16_Witness ==
  /\ DetailsAnswered
  /\ detailsUrl.mediaType = "movie"
  /\ HasExternalIds
  /\ detailsFetch.json.external_ids.imdb_id = "tt2"
  /\ detailsFetch.json.imdb_id = ""
  /\ imdbUrls[LastIdx] = NoUrl

(* ------------------------------- C19 ---------------------------------- *)

\* The outcomes that hold of a response.
OutcomesOf(r) ==
  {o \in {"configuration", "validation", "generation", "empty",
          "unresolved", "success"} :
     \/ o = "configuration" /\ IsConfigError(r)
     \/ o = "validation" /\ IsValidationError(r)
     \/ o = "generation" /\ IsGenerationFailure(r)
     \/ o = "empty" /\ IsEmptySuggestion(r)
     \/ o = "unresolved" /\ IsNoResolution(r)
     \/ o = "success" /\ IsSuccess(r)}

\* C19: when every external call settles, an invocation of POST ends, it
\* answers only when it ends, and its answer is exactly one of:
\* configuration error, validation error, generation failure,
\* empty-suggestion failure, no-resolution failure, success.
C19_Terminates ==
  /\ <>Done
  /\ [](~Done => response = NoResponse)
  /\ [](Done => Cardinality(OutcomesOf(response)) = 1)

C19_Witness ==
  /\ Done
  /\ OutcomesOf(response) = {"unresolved"}
  /\ Len(recommendedTitles) = 3
  /\ Cardinality(CallsTo("details")) >= 1

(* ------------------------------- C12 ---------------------------------- *)

\* C12: against a service with fixed answers, every resolver call of the
\* loop returns what the resolver call for the same candidate returns when
\* the candidates are resolved concurrently, in whatever order the
\* concurrent calls are served; and the response aggregated from the joined
\* results, taken in the candidates' order, is the response of the loop.
C12_SequentialIsConcurrent ==
  Joined
    => /\ Len(imdbUrls) = Len(tasks)
       /\ \A k \in 1..Len(imdbUrls) : imdbUrls[k] = tasks[k].imdbUrl
       /\ response = ConcurrentResponse

C12_Witness ==
  /\ Joined
  /\ Len(tasks) = 2
  /\ imdbUrls[1] = NoUrl
  /\ imdbUrls[2] # NoUrl
  /\ IsSuccess(response)
  /\ response = ConcurrentResponse

(* ------------------------------- C13 ---------------------------------- *)

\* C13: two resolver calls for the same title, answered by the service with
\* the same search and detail responses, return the same result: the same
\* reference, or null both.
C13_Deterministic ==
  \A i, j \in 1..Len(imdbUrls) :
    recommendedTitles[i] = recommendedTitles[j] => imdbUrls[i] = imdbUrls[j]

C13_Witness ==
  /\ Done
  /\ Len(imdbUrls) = 3
  /\ recommendedTitles[1] = recommendedTitles[3]
  /\ imdbUrls[1] # NoUrl
  /\ imdbUrls[3] = imdbUrls[1]
  /\ Cardinality(CallsTo("search")) = 3
  /\ Cardinality(CallsTo("details")) = 3

(* ------------------------------- C17 ---------------------------------- *)

\* Where the title of candidate k occurs among the candidates.
Occurrences(k) ==
  {j \in 1..Len(recommendedTitles) :
     recommendedTitles[j] = recommendedTitles[k]}

\* C17: when the loop has ended, a title that occurs k times among the
\* candidates has had k search calls, one per occurrence; and when it
\* resolves, the response carries it k times, at the places of its
\* occurrences among the resolved candidates.
C17_NoDeduplication ==
  Done /\ Len(imdbUrls) > 0
    => \A k \in 1..Len(recommendedTitles) :
         /\ Cardinality({n \in CallsTo("search") :
                           calls[n].query = recommendedTitles[k]})
              = Cardinality(Occurrences(k))
         /\ \A j \in Occurrences(k) : CallsFor("search", j) # {}
         /\ imdbUrls[k] # NoUrl
              => /\ IsSuccess(response)
                 /\ Cardinality({m \in 1..Len(response.body.recommendations) :
                                   response.body.recommendations[m].title
                                     = recommendedTitles[k]})
                      = Cardinality(Occurrences(k))
                 /\ response.body.recommendations
                      = ResolvedFrom(recommendedTitles, imdbUrls, 1)

C17_Witness ==
  /\ Done
  /\ Occurrences(1) = {1, 2, 3}
  /\ Cardinality({n \in CallsTo("search") :
                    calls[n].query = recommendedTitles[1]}) = 3
  /\ IsSuccess(response)
  /\ Len(response.body.recommendations) = 3
  /\ \A m \in 1..3 :
       response.body.recommendations[m].title = recommendedTitles[1]

(* ------------------------------- C18 ---------------------------------- *)

\* The response that the request of an invocation, the answer of the model
\* to it and the results of its own resolver calls call for.
OwnOutcome(inv) ==
  IF Len(inv.req.movies.items) < MinMovies
  THEN Json([error |-> TooFewMovies], 400)
  ELSE IF inv.generated.tag = "rejects"
  THEN Json([error |-> Failed, details |-> inv.generated.error.message], 500)
  ELSE IF AllBlank(inv.generated.text)
  THEN Json([error |-> NoTitles, llmRawResponse |-> inv.generated.text], 500)
  ELSE LET titles == ExtractTitles(inv.generated.text)
           recs == ResolvedFrom(titles, inv.imdbUrls, 1)
       IN IF recs = <<>>
          THEN Json([error |-> NoImdbDetails, llmTitles |-> titles], 500)
          ELSE Json([recommendations |-> recs], 200)

\* Invocation n, with locals inv, has answered as its own request and its
\* own calls call for, and recommends only what the detail service gave it.
Isolated(n, inv) ==
  /\ \A k \in 1..Len(inv.imdbUrls) :
       inv.imdbUrls[k] \in {NoUrl, Permalink(OwnId(n))}
  /\ \A m \in 1..Len(inv.recommendationsWithImdb) :
       inv.recommendationsWithImdb[m].imdbUrl = Permalink(OwnId(n))
  /\ inv.pc = "done"
       => /\ inv.response = OwnOutcome(inv)
          /\ IsSuccess(inv.response)
               => \A m \in 1..Len(inv.response.body.recommendations) :
                    inv.response.body.recommendations[m].imdbUrl
                      = Permalink(OwnId(n))

\* C18: with two invocations of POST interleaved at their awaits in any
\* way, each one answers as its own request, the model's answer to it and
\* the results of its own resolver calls call for, and no recommendation
\* of one is in the list or in the response of the other.
C18_Isolation ==
  /\ Isolated(current, Running)
  /\ parked # NoInvocation => Isolated(3 - current, parked)

C18_Witness ==
  /\ parked # NoInvocation
  /\ parked.pc = "details"
  /\ Len(parked.recommendationsWithImdb) = 1
  /\ Done
  /\ IsSuccess(response)
  /\ Len(response.body.recommendations) = 2
  /\ response.body.recommendations[1].imdbUrl
       # parked.recommendationsWithImdb[1].imdbUrl

(* ------------------------------- C15 ---------------------------------- *)

\* C15: whatever titles are added and removed, the list of liked titles
\* holds no title twice and no empty string, nor a blank or untrimmed one;
\* and a request has been sent only with a list of at least 3 titles, the
\* list of the page.
C15_LikedList ==
  /\ \A i, j \in 1..Len(movies) : movies[i] = movies[j] => i = j
  /\ \A i \in 1..Len(movies) : movies[i] # <<>> /\ Trim(movies[i]) = movies[i]
  /\ submit # "idle"
       => /\ posted.sent
          /\ Len(posted.movies) >= 3
          /\ posted.movies = movies
  /\ posted # NoRequest => submit # "idle"

C15_Witness ==
  /\ submit = "fetch"
  /\ Len(posted.movies) = 3
  /\ movieInput = <<>>
  /\ Includes(movies, <<"a", SP, "b">>)
  /\ Includes(movies, <<"a">>)

(* ------------------------------- C20 ---------------------------------- *)

\* C20: when the fetch and response.json() settle, a handleSubmit that has
\* sent a request ends, with isLoading false; and at its end either the
\* error is set or the list of recommendations is not empty, not both and
\* not neither.
C20_SubmitEnds ==
  /\ isLoading ~> ~isLoading
  /\ [](isLoading <=> submit # "idle")
  /\ [][isLoading /\ ~isLoading'
          => ~((error' # JSNULL) <=> (recommendations' # <<>>))]_vars

C20_Witness ==
  /\ ~isLoading
  /\ submit = "idle"
  /\ error = NoneFound
  /\ recommendations = <<>>
  /\ Len(movies) >= 3
=============================================================================
